---- MODULE Spec2Model ----
(***************************************************************************)
(* Model of trioll-consumer-app/analyze_ts_errors.py: one linear run that  *)
(* reads typescript-errors.log, parses its lines into diagnostics,         *)
(* classifies and aggregates them, renders a text report, writes           *)
(* typescript_errors_analysis.json and prints three summary lines.         *)
(*                                                                         *)
(* Text is modelled by TLA+ strings; the character at position i of s is   *)
(* SubSeq(s, i, i).  A string of the model holds the characters up to      *)
(* U+00FF (the grave accent excepted); the character classes below         *)
(* (Whitespace, Digits) are those of Python restricted to that alphabet.   *)
(* A Python exception ends the run: it is recorded in exc and no later     *)
(* step is taken.                                                          *)
(***************************************************************************)
EXTENDS Integers, Sequences, FiniteSets

VARIABLES fileExists, fileText, pc, exc, errors, analysis, report, stdout, outFile

vars == <<fileExists, fileText, pc, exc, errors, analysis, report, stdout, outFile>>

(***************************************************************************)
(* String primitives of the Python runtime used by the script.             *)
(***************************************************************************)

Ch(s, i) == SubSeq(s, i, i)

\* s[a..b] with Python's clamping at the end of the string
Slice(s, a, b) == IF a > b \/ a > Len(s) THEN ""
                  ELSE SubSeq(s, a, IF b > Len(s) THEN Len(s) ELSE b)

\* s.startswith(lit, pos-1)
StartsWithAt(s, pos, lit) ==
    /\ pos >= 1
    /\ pos + Len(lit) - 1 <= Len(s)
    /\ (Len(lit) = 0 \/ SubSeq(s, pos, pos + Len(lit) - 1) = lit)

\* Python's "sub in s"
Contains(sub, s) == \E i \in 1..(Len(s) - Len(sub) + 1) : StartsWithAt(s, i, sub)

\* s.find(sub, pos-1) as a 1-based position, 0 when absent
FindFrom(s, sub, pos) ==
    LET hits == {i \in pos..(Len(s) - Len(sub) + 1) : StartsWithAt(s, i, sub)}
    IN  IF hits = {} THEN 0 ELSE CHOOSE i \in hits : \A j \in hits : i <= j

\* the whitespace characters that have no escape in a string: U+000B (vertical
\* tab), U+001C..U+001F (file, group, record and unit separator), U+0085 (next
\* line) and U+00A0 (no-break space)
VT == ""
FS == ""
GS == ""
RS == ""
US == ""
NEL == ""
NBSP == " "

\* the characters str.strip() removes, those str.isspace() accepts, up to U+00FF.
\* Beyond U+00FF the code also removes U+1680, U+2000..U+200A, U+2028, U+2029,
\* U+202F, U+205F and U+3000, which no string of the model holds.
Whitespace == {" ", "\t", "\n", "\r", "\f", VT, FS, GS, RS, US, NEL, NBSP}

\* a variant of strip that leaves leading whitespace in place (str.rstrip)
strip_trailing_only(s) ==
    LET keep == {i \in 1..Len(s) : Ch(s, i) \notin Whitespace}
    IN  IF keep = {} THEN ""
        ELSE SubSeq(s, 1, CHOOSE i \in keep : \A j \in keep : i >= j)

\* str.strip(): leading and trailing whitespace removed
strip(s) ==
    LET keep == {i \in 1..Len(s) : Ch(s, i) \notin Whitespace}
    IN  IF keep = {} THEN ""
        ELSE SubSeq(s, CHOOSE i \in keep : \A j \in keep : i <= j,
                       CHOOSE i \in keep : \A j \in keep : i >= j)

\* str.replace(old, ""): every non-overlapping occurrence of old removed, left to right
RECURSIVE RemoveAll(_, _)
RemoveAll(s, old) ==
    LET p == FindFrom(s, old, 1)
    IN  IF p = 0 THEN s
        ELSE Slice(s, 1, p - 1) \o RemoveAll(Slice(s, p + Len(old), Len(s)), old)

\* str.split(sep) for a one-character separator
RECURSIVE split(_, _)
split(s, sep) ==
    LET p == FindFrom(s, sep, 1)
    IN  IF p = 0 THEN <<s>>
        ELSE <<Slice(s, 1, p - 1)>> \o split(Slice(s, p + 1, Len(s)), sep)

\* list.index(x) as a 1-based position, 0 where Python raises ValueError
ListIndex(list, x) ==
    LET hits == {i \in 1..Len(list) : list[i] = x}
    IN  IF hits = {} THEN 0 ELSE CHOOSE i \in hits : \A j \in hits : i <= j

\* the characters \d matches and int() converts, up to U+00FF.  In a str pattern
\* \d matches every Unicode decimal digit (category Nd) and int() gives each its
\* digit value; the digits other than "0".."9" all lie beyond U+00FF, so that no
\* string of the model holds them.
Digits == {"0", "1", "2", "3", "4", "5", "6", "7", "8", "9"}

DigitVal(c) == CASE c = "0" -> 0 [] c = "1" -> 1 [] c = "2" -> 2 [] c = "3" -> 3
                 [] c = "4" -> 4 [] c = "5" -> 5 [] c = "6" -> 6 [] c = "7" -> 7
                 [] c = "8" -> 8 [] c = "9" -> 9

\* int(s) for a string of decimal digits
RECURSIVE int(_)
int(s) == IF Len(s) = 0 THEN 0
          ELSE 10 * int(SubSeq(s, 1, Len(s) - 1)) + DigitVal(Ch(s, Len(s)))

DigitStr(d) == CASE d = 0 -> "0" [] d = 1 -> "1" [] d = 2 -> "2" [] d = 3 -> "3"
                 [] d = 4 -> "4" [] d = 5 -> "5" [] d = 6 -> "6" [] d = 7 -> "7"
                 [] d = 8 -> "8" [] d = 9 -> "9"

\* str(n) for n >= 0, as the f-strings format a count
RECURSIVE str(_)
str(n) == IF n < 10 THEN DigitStr(n) ELSE str(n \div 10) \o DigitStr(n % 10)

\* sep.join(list)
RECURSIVE join(_, _)
join(sep, list) ==
    IF Len(list) = 0 THEN ""
    ELSE IF Len(list) = 1 THEN list[1]
    ELSE list[1] \o sep \o join(sep, Tail(list))

(***************************************************************************)
(* open(log_file, 'r') and f.readlines(): the text is cut after every line *)
(* end; universal newlines turn "\r\n" and "\r" into "\n".                 *)
(***************************************************************************)
RECURSIVE readlines(_)
readlines(text) ==
    LET ends == {i \in 1..Len(text) : Ch(text, i) \in {"\n", "\r"}}
        e    == CHOOSE i \in ends : \A j \in ends : i <= j
        skip == IF Ch(text, e) = "\r" /\ StartsWithAt(text, e + 1, "\n") THEN e + 1 ELSE e
    IN  IF Len(text) = 0 THEN <<>>
        ELSE IF ends = {} THEN <<text>>
        ELSE <<Slice(text, 1, e - 1) \o "\n">> \o readlines(Slice(text, skip + 1, Len(text)))

(***************************************************************************)
(* re.match(r'^(.+?)\((\d+),(\d+)\): error (TS\d+): (.+)$', s)             *)
(***************************************************************************)

\* last position of the maximal run of digits that starts at pos (pos - 1 when none)
DigitRunEnd(s, pos) ==
    LET stops == {i \in pos..(Len(s) + 1) : i = Len(s) + 1 \/ Ch(s, i) \notin Digits}
    IN  (CHOOSE i \in stops : \A j \in stops : i <= j) - 1

\* the groups the pattern yields when group 1 is s[1..i]; ok = FALSE when the rest
\* of the pattern does not match there
MatchWithFile(s, i) ==
    LET j == DigitRunEnd(s, i + 2)
        k == DigitRunEnd(s, j + 2)
        c == DigitRunEnd(s, k + 12)
    IN  IF /\ StartsWithAt(s, i + 1, "(")
           /\ j >= i + 2
           /\ StartsWithAt(s, j + 1, ",")
           /\ k >= j + 2
           /\ StartsWithAt(s, k + 1, "): error TS")
           /\ c >= k + 12
           /\ StartsWithAt(s, c + 1, ": ")
           /\ Len(s) >= c + 3
           /\ ~Contains("\n", Slice(s, c + 3, Len(s)))
           /\ ~Contains("\n", SubSeq(s, 1, i))
        THEN [ok |-> TRUE, file |-> SubSeq(s, 1, i), line_num |-> SubSeq(s, i + 2, j),
              col_num |-> SubSeq(s, j + 2, k), error_code |-> SubSeq(s, k + 10, c),
              message |-> SubSeq(s, c + 3, Len(s))]
        ELSE [ok |-> FALSE, file |-> "", line_num |-> "", col_num |-> "",
              error_code |-> "", message |-> ""]

\* the lazy first group takes the shortest non-empty prefix for which the rest
\* matches; ok = FALSE stands for re.match returning None
error_pattern(s) ==
    LET fits == {i \in 1..Len(s) : MatchWithFile(s, i).ok}
    IN  IF fits = {}
        THEN [ok |-> FALSE, file |-> "", line_num |-> "", col_num |-> "",
              error_code |-> "", message |-> ""]
        ELSE MatchWithFile(s, CHOOSE i \in fits : \A j \in fits : i <= j)

(***************************************************************************)
(* categorize_error                                                        *)
(***************************************************************************)
categories == <<
    <<"TS2307", "Module not found">>,
    <<"TS2339", "Property does not exist">>,
    <<"TS2345", "Type mismatch">>,
    <<"TS2304", "Cannot find name">>,
    <<"TS2322", "Type assignment error">>,
    <<"TS2554", "Expected arguments mismatch">>,
    <<"TS2353", "Unknown property in object literal">>,
    <<"TS2341", "Property is private">>,
    <<"TS2349", "Expression not callable">>,
    <<"TS2698", "Spread types error">>,
    <<"TS2724", "No exported member">>,
    <<"TS2551", "Property name typo">>,
    <<"TS2552", "Cannot find name (suggestion provided)">>,
    <<"TS2559", "Type has no properties in common">>,
    <<"TS1345", "Void expression cannot be tested">>,
    <<"TS2786", "Cannot be used as JSX component">>,
    <<"TS2607", "JSX element class error">> >>

\* a variant of categorize_error without the final return 'Other'
categorize_error_no_default(error_code, message) ==
    LET hits == {i \in 1..Len(categories) : categories[i][1] = error_code}
    IN  IF hits = {} THEN ""
        ELSE categories[CHOOSE i \in hits : \A j \in hits : i <= j][2]

\* the loop over categories.items(): the first entry whose code is error_code
categorize_error(error_code, message) ==
    LET hits == {i \in 1..Len(categories) : categories[i][1] = error_code}
    IN  IF hits = {} THEN "Other"
        ELSE categories[CHOOSE i \in hits : \A j \in hits : i <= j][2]

(***************************************************************************)
(* is_backend_related                                                      *)
(***************************************************************************)
backend_keywords == <<
    "api", "API", "service", "Service", "auth", "Auth",
    "websocket", "WebSocket", "fetch", "request", "response",
    "endpoint", "login", "LoginResponse", "mfaRequired",
    "token", "credential", "aws", "AWS", "cognito", "Cognito",
    "dynamodb", "s3", "analytics", "Analytics" >>

backend_paths == <<
    "api/", "services/", "utils/api", "utils/auth",
    "integration/", "websocket", "security/" >>

\* a variant of is_backend_related whose first loop returns on its first pass
is_backend_related_first_path_only(file_path, message) ==
    IF Contains(backend_paths[1], file_path) THEN TRUE ELSE FALSE

is_backend_related(file_path, message) ==
    IF \E i \in 1..Len(backend_paths) : Contains(backend_paths[i], file_path)
    THEN TRUE
    ELSE IF \E i \in 1..Len(backend_keywords) : Contains(backend_keywords[i], message)
    THEN TRUE
    ELSE FALSE

(***************************************************************************)
(* parse_typescript_errors, given the lines readlines() returned           *)
(***************************************************************************)
RECURSIVE ParseLines(_)
ParseLines(lines) ==
    IF Len(lines) = 0 THEN <<>>
    ELSE LET match == error_pattern(strip(lines[1]))
         IN  (IF match.ok
              THEN << [file |-> match.file,
                       line |-> int(match.line_num),
                       column |-> int(match.col_num),
                       code |-> match.error_code,
                       message |-> match.message,
                       category |-> categorize_error(match.error_code, match.message),
                       is_backend_related |-> is_backend_related(match.file, match.message)] >>
              ELSE <<>>)
             \o ParseLines(Tail(lines))

parse_typescript_errors(text) == ParseLines(readlines(text))

(***************************************************************************)
(* get_screen_from_path.  The result is [ok |-> TRUE, val |-> label] or,   *)
(* where Python raises, [ok |-> FALSE, val |-> name of the exception].     *)
(***************************************************************************)
Returns(v) == [ok |-> TRUE, val |-> v]
Raises(e)  == [ok |-> FALSE, val |-> e]

\* lines 105-109, reached when no branch of the if/elif chain returns
DefaultScreen(path_parts) ==
    IF Len(path_parts) > 1 THEN Returns(path_parts[Len(path_parts) - 1])
    ELSE Returns("Root")

get_screen_from_path(file_path) ==
    LET path_parts == split(file_path, "/")
        scr_idx    == ListIndex(path_parts, "screens")
        comp_idx   == ListIndex(path_parts, "components")
        src_idx    == ListIndex(path_parts, "src")
    IN  IF Contains("screens/", file_path)
        THEN IF scr_idx = 0 THEN Raises("ValueError")
             ELSE IF scr_idx + 1 > Len(path_parts) THEN Raises("IndexError")
             ELSE Returns(RemoveAll(RemoveAll(path_parts[scr_idx + 1], ".tsx"), ".ts"))
        ELSE IF Contains("components/", file_path)
        THEN IF comp_idx = 0 THEN Raises("ValueError")
             ELSE IF comp_idx + 1 <= Len(path_parts)
             THEN Returns("Component:" \o path_parts[comp_idx + 1])
             ELSE DefaultScreen(path_parts)
        ELSE IF Contains("__tests__/", file_path)
        THEN Returns("Tests")
        ELSE IF Contains("src/", file_path)
        THEN IF src_idx = 0 THEN Raises("ValueError")
             ELSE IF Len(path_parts) > src_idx
             THEN Returns("Module:" \o path_parts[src_idx + 1])
             ELSE DefaultScreen(path_parts)
        ELSE DefaultScreen(path_parts)

(***************************************************************************)
(* collections.Counter and sorted(): a Counter (and a dict) is the         *)
(* sequence of its <<key, count>> items in insertion order.                *)
(***************************************************************************)
CounterAdd(counter, key) ==
    IF \E i \in 1..Len(counter) : counter[i][1] = key
    THEN [i \in 1..Len(counter) |->
            IF counter[i][1] = key THEN <<key, counter[i][2] + 1>> ELSE counter[i]]
    ELSE Append(counter, <<key, 1>>)

\* Counter(iterable): keys tallied in the order they are met
RECURSIVE Counter(_)
Counter(keys) ==
    IF Len(keys) = 0 THEN <<>>
    ELSE CounterAdd(Counter(SubSeq(keys, 1, Len(keys) - 1)), keys[Len(keys)])

\* a variant of InsertDescending that puts item ahead of the items with its count
InsertDescending_TiesReversed(sorted, item) ==
    LET ahead == {i \in 1..Len(sorted) : sorted[i][2] > item[2]}
        n     == Cardinality(ahead)
    IN  SubSeq(sorted, 1, n) \o <<item>> \o SubSeq(sorted, n + 1, Len(sorted))

\* one step of a stable descending sort on item[2]: item goes behind every
\* item whose count is at least its own
InsertDescending(sorted, item) ==
    LET ahead == {i \in 1..Len(sorted) : sorted[i][2] >= item[2]}
        n     == Cardinality(ahead)
    IN  SubSeq(sorted, 1, n) \o <<item>> \o SubSeq(sorted, n + 1, Len(sorted))

\* sorted(items, key=count, reverse=True): stable, so equal counts keep their order
RECURSIVE SortDescending(_)
SortDescending(items) ==
    IF Len(items) = 0 THEN <<>>
    ELSE InsertDescending(SortDescending(SubSeq(items, 1, Len(items) - 1)), items[Len(items)])

Take(list, n) == SubSeq(list, 1, IF Len(list) < n THEN Len(list) ELSE n)

\* Counter.most_common(n)
most_common(counter, n) == Take(SortDescending(counter), n)

(***************************************************************************)
(* analyze_errors                                                          *)
(***************************************************************************)
TopScreens  == 5
TopPatterns == 5
TopProps    == 10
PropFiles   == 3
TopCodes    == 10

\* re.search(r"Property '(.+?)' does not exist", message): the leftmost start
\* from which the pattern matches, and there the shortest name; "" when None
MissingProp(message) ==
    LET NameEnds(st) == {e \in (st + 10)..Len(message) :
                            StartsWithAt(message, e + 1, "' does not exist")}
        starts == {st \in 1..Len(message) :
                      StartsWithAt(message, st, "Property '") /\ NameEnds(st) # {}}
        st0    == CHOOSE st \in starts : \A t \in starts : st <= t
        e0     == CHOOSE e \in NameEnds(st0) : \A f \in NameEnds(st0) : e <= f
    IN  IF starts = {} THEN "" ELSE SubSeq(message, st0 + 10, e0)

\* missing_props[prop].append(file): a defaultdict(list) in insertion order
MissingPropsAdd(mp, prop, file) ==
    IF \E i \in 1..Len(mp) : mp[i][1] = prop
    THEN [i \in 1..Len(mp) |->
            IF mp[i][1] = prop THEN <<prop, Append(mp[i][2], file)>> ELSE mp[i]]
    ELSE Append(mp, <<prop, <<file>> >>)

RECURSIVE missing_props(_)
missing_props(errs) ==
    IF Len(errs) = 0 THEN <<>>
    ELSE LET before == missing_props(SubSeq(errs, 1, Len(errs) - 1))
             e      == errs[Len(errs)]
         IN  IF /\ Contains("Property", e.message)
                /\ Contains("does not exist", e.message)
                /\ MissingProp(e.message) # ""
             THEN MissingPropsAdd(before, MissingProp(e.message), e.file)
             ELSE before

Range(list) == {list[i] : i \in 1..Len(list)}

\* every order in which iterating a set of these elements can list them
RECURSIVE SetListings(_)
SetListings(S) ==
    IF S = {} THEN {<<>>}
    ELSE UNION {{<<x>> \o rest : rest \in SetListings(S \ {x})} : x \in S}

\* list(set(files)) for each entry of missing_props: the iteration order of a set
\* of strings is not fixed by the language, so every order is a possible outcome
RECURSIVE SetOrders(_)
SetOrders(mp) ==
    IF Len(mp) = 0 THEN {<<>>}
    ELSE {<<l>> \o rest : l \in SetListings(Range(mp[1][2])), rest \in SetOrders(Tail(mp))}

\* a variant of common_missing_properties that counts the distinct files
common_missing_properties_by_files(mp, set_lists) ==
    LET items  == [i \in 1..Len(mp) |-> <<i, Len(set_lists[i])>>]
        ranked == Take(SortDescending(items), TopProps)
    IN  [r \in 1..Len(ranked) |->
            [property |-> mp[ranked[r][1]][1],
             count    |-> ranked[r][2],
             files    |-> Take(set_lists[ranked[r][1]], PropFiles)]]

\* lines 136-139, with set_lists[i] the outcome of list(set(files)) for entry i
common_missing_properties(mp, set_lists) ==
    LET items  == [i \in 1..Len(mp) |-> <<i, Len(mp[i][2])>>]
        ranked == Take(SortDescending(items), TopProps)
    IN  [r \in 1..Len(ranked) |->
            [property |-> mp[ranked[r][1]][1],
             count    |-> ranked[r][2],
             files    |-> Take(set_lists[ranked[r][1]], PropFiles)]]

\* the first exception get_screen_from_path raises while by_screen is built
\* (line 116), "none" when every call returns
AnalyzeRaises(errs) ==
    LET bad == {i \in 1..Len(errs) : ~get_screen_from_path(errs[i].file).ok}
    IN  IF bad = {} THEN "none"
        ELSE get_screen_from_path(errs[CHOOSE i \in bad : \A j \in bad : i <= j].file).val

\* the generators of lines 119-120 and 142-143
SelectBackend(errs) == SelectSeq(errs, LAMBDA e : e.is_backend_related)
\* a variant of SelectFrontend that drops the condition
SelectFrontend_All(errs) == errs

SelectFrontend(errs) == SelectSeq(errs, LAMBDA e : ~e.is_backend_related)

analyze_errors(errs, set_lists) ==
    LET by_category == Counter([i \in 1..Len(errs) |-> errs[i].category])
        by_screen   == Counter([i \in 1..Len(errs) |-> get_screen_from_path(errs[i].file).val])
        api         == SelectBackend(errs)
        top         == most_common(by_screen, TopScreens)
    IN  [total_errors |-> Len(errs),
         by_category  |-> by_category,
         by_screen    |-> by_screen,
         by_file      |-> Counter([i \in 1..Len(errs) |-> errs[i].file]),
         backend_vs_frontend |-> [backend  |-> Len(SelectBackend(errs)),
                                  frontend |-> Len(SelectFrontend(errs))],
         error_codes  |-> Counter([i \in 1..Len(errs) |-> errs[i].code]),
         common_missing_properties |->
             common_missing_properties(missing_props(errs), set_lists),
         api_related_errors |->
             [i \in 1..Len(api) |-> [file |-> api[i].file, message |-> api[i].message,
                                     category |-> api[i].category]],
         top_5_screens |-> [i \in 1..Len(top) |-> [screen |-> top[i][1], count |-> top[i][2]]],
         most_common_patterns |-> most_common(by_category, TopPatterns)]

(***************************************************************************)
(* generate_report                                                         *)
(***************************************************************************)

\* The two percentages are computed in double precision: num / den is rounded to
\* the nearest double, the product with 100 is rounded again, and :.1f writes the
\* decimal with one digit after the point nearest to that double.  The result
\* differs from the rounded exact quotient where the latter is a tie: 23/80*100
\* is the double 28.749999999999996 and prints as 28.7.  A mantissa of 53 binary
\* digits exceeds the integers at hand, so it is held as the string of its digits.

\* the binary digits of n, most significant first (none for 0)
RECURSIVE Bits(_)
Bits(n) == IF n = 0 THEN <<>> ELSE Append(Bits(n \div 2), n % 2)

\* the number a short string of binary digits writes
RECURSIVE BitsVal(_)
BitsVal(b) == IF Len(b) = 0 THEN 0
              ELSE 2 * BitsVal(SubSeq(b, 1, Len(b) - 1)) + b[Len(b)]

\* b + 1
Incr(b) ==
    LET zeros == {i \in 1..Len(b) : b[i] = 0}
        z     == CHOOSE i \in zeros : \A j \in zeros : i >= j
    IN  IF zeros = {} THEN [i \in 1..(Len(b) + 1) |-> IF i = 1 THEN 1 ELSE 0]
        ELSE [i \in 1..Len(b) |-> IF i < z THEN b[i] ELSE IF i = z THEN 1 ELSE 0]

\* one digit of b * k, from the least significant end: i digits of b are left,
\* out holds the digits of the product found so far
MulStep(b, k, st) ==
    LET t == b[st.i] * k + st.carry
    IN  [i |-> st.i - 1, carry |-> t \div 2, out |-> <<t % 2>> \o st.out]

\* n steps of MulStep, fewer when no digit of b is left
RECURSIVE MulSteps(_, _, _, _)
MulSteps(b, k, st, n) ==
    IF st.i = 0 \/ n = 0 THEN st
    ELSE IF n = 1 THEN MulStep(b, k, st)
    ELSE MulSteps(b, k, MulSteps(b, k, st, n \div 2), n - n \div 2)

\* b * k for a small k
MulSmall(b, k) ==
    LET st == MulSteps(b, k, [i |-> Len(b), carry |-> 0, out |-> <<>>], Len(b))
    IN  Bits(st.carry) \o st.out

MantissaBits == 53

\* b / 2^drop rounded to the nearest integer, a tie going to the even one;
\* sticky tells that the exact value lies above the one b writes
RoundHalfEven(b, drop, sticky) ==
    LET pad   == IF drop + 1 > Len(b) THEN drop + 1 - Len(b) ELSE 0
        p     == [i \in 1..(Len(b) + pad) |-> IF i <= pad THEN 0 ELSE b[i - pad]]
        n     == Len(p) - drop
        kept  == SubSeq(p, 1, n)
        guard == drop > 0 /\ p[n + 1] = 1
        rest  == sticky \/ \E i \in (n + 2)..Len(p) : p[i] = 1
        up    == guard /\ (rest \/ kept[n] = 1)
    IN  IF up THEN Incr(kept) ELSE kept

\* the double nearest to b * 2^e (b of at least 53 digits, the first one a 1):
\* a mantissa m of 53 binary digits and an exponent e, standing for m * 2^e
Double(b, e, sticky) ==
    LET drop == Len(b) - MantissaBits
        r    == RoundHalfEven(b, drop, sticky)
    IN  IF Len(r) > MantissaBits
        THEN [m |-> SubSeq(r, 1, MantissaBits), e |-> e + drop + 1]
        ELSE [m |-> r, e |-> e + drop]

\* one step of the long division by den: the next binary digit of the quotient,
\* kept from the first 1 on
DivStep(st, den) ==
    LET bit == (2 * st.r) \div den
    IN  [r   |-> (2 * st.r) % den,
         sig |-> IF Len(st.sig) = 0 /\ bit = 0 THEN st.sig ELSE Append(st.sig, bit),
         e   |-> st.e - 1]

\* n steps of DivStep, fewer when the 54 digits are there
RECURSIVE DivSteps(_, _, _)
DivSteps(st, den, n) ==
    IF Len(st.sig) > MantissaBits \/ n = 0 THEN st
    ELSE IF n = 1 THEN DivStep(st, den)
    ELSE DivSteps(DivSteps(st, den, n \div 2), den, n - n \div 2)

\* the steps that yield 54 digits whatever the quotient: 31 zeros at most come first
MaxDivSteps == 85

\* the double num / den, for num > 0 and den > 0
FloatDiv(num, den) ==
    LET st == DivSteps([r |-> num % den, sig |-> Bits(num \div den), e |-> 0],
                       den, MaxDivSteps)
    IN  Double(st.sig, st.e, st.r # 0)

\* the double x * k, for a small integer k
FloatMul(x, k) == Double(MulSmall(x.m, k), x.e, FALSE)

\* f"{x:.1f}": the decimal with one digit after the point nearest to the double
Format1f(x) ==
    LET tenths == BitsVal(RoundHalfEven(MulSmall(x.m, 10), 0 - x.e, FALSE))
    IN  str(tenths \div 10) \o "." \o str(tenths % 10)

\* f"{num/den*100:.1f}" for 0 <= num and 0 < den < 2^30
Percent(num, den) ==
    IF num = 0 THEN "0.0" ELSE Format1f(FloatMul(FloatDiv(num, den), 100))

RECURSIVE Flatten(_)
Flatten(lists) == IF Len(lists) = 0 THEN <<>> ELSE lists[1] \o Flatten(Tail(lists))

generate_report(a) ==
    LET bf    == a.backend_vs_frontend
        props == Take(a.common_missing_properties, 5)
        codes == most_common(a.error_codes, TopCodes)
    IN  join("\n",
          << "# TypeScript Error Analysis Report",
             "\nTotal Errors: " \o str(a.total_errors),
             "\n## Backend vs Frontend Distribution",
             "- Backend-related: " \o str(bf.backend) \o " ("
                 \o Percent(bf.backend, a.total_errors) \o "%)",
             "- Frontend-only: " \o str(bf.frontend) \o " ("
                 \o Percent(bf.frontend, a.total_errors) \o "%)",
             "\n## Top 5 Screens/Components with Most Errors" >>
          \o [i \in 1..Len(a.top_5_screens) |->
                "- " \o a.top_5_screens[i].screen \o ": "
                     \o str(a.top_5_screens[i].count) \o " errors"]
          \o << "\n## Most Common Error Patterns" >>
          \o [i \in 1..Len(a.most_common_patterns) |->
                "- " \o a.most_common_patterns[i][1] \o ": "
                     \o str(a.most_common_patterns[i][2]) \o " occurrences"]
          \o << "\n## Common Missing Properties (Backend Integration Issues)" >>
          \o Flatten([i \in 1..Len(props) |->
                << "- '" \o props[i].property \o "': " \o str(props[i].count) \o " occurrences",
                   "  Files: " \o join(", ", props[i].files) >>])
          \o << "\n## Error Code Distribution" >>
          \o [i \in 1..Len(codes) |->
                "- " \o codes[i][1] \o ": " \o str(codes[i][2]) \o " errors"])

(***************************************************************************)
(* save_json_data: the document json.dump writes                           *)
(***************************************************************************)
save_json_data(a) ==
    [summary |-> [total_errors    |-> a.total_errors,
                  backend_errors  |-> a.backend_vs_frontend.backend,
                  frontend_errors |-> a.backend_vs_frontend.frontend],
     by_category |-> a.by_category,
     by_screen   |-> a.by_screen,
     top_5_screens |-> a.top_5_screens,
     error_distribution |->
         << [type |-> "Backend",  count |-> a.backend_vs_frontend.backend],
            [type |-> "Frontend", count |-> a.backend_vs_frontend.frontend] >>,
     common_patterns |->
         [i \in 1..Len(a.most_common_patterns) |->
             [pattern |-> a.most_common_patterns[i][1],
              count   |-> a.most_common_patterns[i][2]]],
     missing_properties |-> Take(a.common_missing_properties, TopProps)]

(***************************************************************************)
(* The run (the __main__ block).  pc names the statement to execute next;  *)
(* analysis and outFile hold at most one value (<<>> until assigned).      *)
(***************************************************************************)

\* a variant of Parse that reads a missing log as an empty one
Parse_MissingLogAsEmpty ==
    /\ pc = "parse" /\ exc = "none"
    /\ errors' = (IF fileExists THEN parse_typescript_errors(fileText) ELSE <<>>)
    /\ pc' = "analyze"
    /\ UNCHANGED <<fileExists, fileText, exc, analysis, report, stdout, outFile>>

\* errors = parse_typescript_errors('typescript-errors.log'); open() raises
\* FileNotFoundError when the log is missing
Parse ==
    /\ pc = "parse" /\ exc = "none"
    /\ IF ~fileExists
       THEN /\ exc' = "FileNotFoundError"
            /\ UNCHANGED <<pc, errors>>
       ELSE /\ errors' = parse_typescript_errors(fileText)
            /\ pc' = "analyze"
            /\ UNCHANGED exc
    /\ UNCHANGED <<fileExists, fileText, analysis, report, stdout, outFile>>

\* analysis = analyze_errors(errors)
Analyze ==
    /\ pc = "analyze" /\ exc = "none"
    /\ IF AnalyzeRaises(errors) # "none"
       THEN /\ exc' = AnalyzeRaises(errors)
            /\ UNCHANGED <<pc, analysis>>
       ELSE /\ \E set_lists \in SetOrders(missing_props(errors)) :
                   analysis' = <<analyze_errors(errors, set_lists)>>
            /\ pc' = "report"
            /\ UNCHANGED exc
    /\ UNCHANGED <<fileExists, fileText, errors, report, stdout, outFile>>

\* report = generate_report(analysis); print(report).  The divisions on lines
\* 169-170 raise ZeroDivisionError when total_errors is 0
Report ==
    /\ pc = "report" /\ exc = "none"
    /\ IF analysis[1].total_errors = 0
       THEN /\ exc' = "ZeroDivisionError"
            /\ UNCHANGED <<pc, report, stdout>>
       ELSE /\ report' = generate_report(analysis[1])
            /\ stdout' = Append(stdout, report')
            /\ pc' = "save"
            /\ UNCHANGED exc
    /\ UNCHANGED <<fileExists, fileText, errors, analysis, outFile>>

\* viz_data = save_json_data(analysis)
Save ==
    /\ pc = "save" /\ exc = "none"
    /\ outFile' = <<save_json_data(analysis[1])>>
    /\ pc' = "summary"
    /\ UNCHANGED <<fileExists, fileText, exc, errors, analysis, report, stdout>>

\* the five closing print calls; the last two divide by summary.total_errors
Summary ==
    /\ pc = "summary" /\ exc = "none"
    /\ LET s == outFile[1].summary
           head == << "\n\nJSON data saved to typescript_errors_analysis.json",
                      "\nQuick Stats for Visualization:",
                      "- Total Errors: " \o str(s.total_errors) >>
       IN  IF s.total_errors = 0
           THEN /\ exc' = "ZeroDivisionError"
                /\ stdout' = stdout \o head
                /\ UNCHANGED pc
           ELSE /\ stdout' = stdout \o head \o
                      << "- Backend Errors: " \o str(s.backend_errors) \o " ("
                            \o Percent(s.backend_errors, s.total_errors) \o "%)",
                         "- Frontend Errors: " \o str(s.frontend_errors) \o " ("
                            \o Percent(s.frontend_errors, s.total_errors) \o "%)" >>
                /\ pc' = "exit"
                /\ UNCHANGED exc
    /\ UNCHANGED <<fileExists, fileText, errors, analysis, report, outFile>>

Next == Parse \/ Analyze \/ Report \/ Save \/ Summary

\* the state when the interpreter reaches line 220, for a log that is missing
\* or holds one of the given texts
Start(texts) ==
    /\ fileExists \in BOOLEAN
    /\ fileText \in (IF fileExists THEN texts ELSE {""})
    /\ pc = "parse"
    /\ exc = "none"
    /\ errors = <<>>
    /\ analysis = <<>>
    /\ report = ""
    /\ stdout = <<>>
    /\ outFile = <<>>

(***************************************************************************)
(* Input logs.                                                             *)
(***************************************************************************)

\* a line of compiler output as tsc prints it, without its line end
ErrLine(file, line_num, col_num, code, message) ==
    file \o "(" \o line_num \o "," \o col_num \o "): error " \o code \o ": " \o message

\* every text made of at most n of the given pieces, in any order
RECURSIVE LogTexts(_, _)
LogTexts(pieces, n) ==
    IF n = 0 THEN {""}
    ELSE LogTexts(pieces, n - 1) \cup {t \o l : t \in LogTexts(pieces, n - 1), l \in pieces}

MaxLines == 3

SampleLines == {
    ErrLine("src/api/auth.ts", "10", "5", "TS2339",
            "Property 'mfaRequired' does not exist on type 'LoginResponse'.") \o "\n",
    ErrLine("src/components/Button/Button.tsx", "3", "1", "TS9999", "something else") \o "\n",
    " " \o VT \o ErrLine("src/screens/Home.tsx", "007", "12", "TS2307", "Cannot find module")
        \o " \t" \o US \o "\r\n",
    ErrLine("mysrc/a.ts", "1", "2", "TS2307", "bad") \o "\n",
    ErrLine("a(1)", "2", "3", "TS1", "x(4,5): error TS2: y") \o "\n",
    " " \o ErrLine("", "1", "2", "TS2307", "m") \o "\n",
    ErrLine("lib/x.ts", "1", "", "TS2307", "m") \o "\n",
    "lib/x.ts(1,2): warning TS2307: m\n",
    "Found 3 errors." }

Init == Start(LogTexts(SampleLines, MaxLines))

Spec == Init /\ [][Next]_vars

(***************************************************************************)
(* Properties of the run.                                                  *)
(***************************************************************************)
Parsed == pc # "parse"

\* C1: when the log exists and yields no diagnostic, the run reports 0 errors
\* and renders the report and the closing summary without a division error.
C1_EmptyLogRenders ==
    (fileExists /\ Parsed /\ Len(errors) = 0) =>
        /\ exc = "none"
        /\ (analysis # <<>> => analysis[1].total_errors = 0)

\* C2: for a non-empty list of diagnostics, whatever their paths, classification,
\* grouping, aggregation and rendering complete: no step raises.
C2_ProcessingTotal ==
    (Parsed /\ Len(errors) > 0) => exc = "none"

\* the label the six ordered rules give, tested on the path's segments
SegmentScreen(file_path) ==
    LET parts == split(file_path, "/")
        Has(seg)   == \E i \in 1..Len(parts) : parts[i] = seg
        First(seg) == CHOOSE i \in 1..Len(parts) :
                          parts[i] = seg /\ \A j \in 1..(i - 1) : parts[j] # seg
        NoSuffix(seg) ==
            IF Len(seg) >= 4 /\ SubSeq(seg, Len(seg) - 3, Len(seg)) = ".tsx"
            THEN SubSeq(seg, 1, Len(seg) - 4)
            ELSE IF Len(seg) >= 3 /\ SubSeq(seg, Len(seg) - 2, Len(seg)) = ".ts"
            THEN SubSeq(seg, 1, Len(seg) - 3)
            ELSE seg
    IN  IF Has("screens") /\ First("screens") < Len(parts)
        THEN NoSuffix(parts[First("screens") + 1])
        ELSE IF Has("components") /\ First("components") < Len(parts)
        THEN "Component:" \o parts[First("components") + 1]
        ELSE IF Has("__tests__") THEN "Tests"
        ELSE IF Has("src") /\ First("src") < Len(parts)
        THEN "Module:" \o parts[First("src") + 1]
        ELSE IF Len(parts) > 1 THEN parts[Len(parts) - 1]
        ELSE "Root"

\* C3: every file path is grouped under the label of the first matching rule of
\* screens / components / __tests__ / src / parent directory / Root, the rules
\* being tested on the segments of the path.
C3_ScreenRules ==
    /\ (pc = "analyze" => exc = "none")
    /\ (analysis # <<>> =>
          analysis[1].by_screen =
              Counter([i \in 1..Len(errors) |-> SegmentScreen(errors[i].file)]))

(***************************************************************************)
(* The line shape '<file>(<line>,<column>): error <code>: <message>',      *)
(* stated on the positions of its punctuation.                             *)
(***************************************************************************)
AllDigits(s) == Len(s) > 0 /\ \A i \in 1..Len(s) : Ch(s, i) \in Digits

RECURSIVE Pow10(_)
Pow10(n) == IF n = 0 THEN 1 ELSE 10 * Pow10(n - 1)

\* the number a string of digits writes
DecimalValue(s) ==
    LET Term[i \in 0..Len(s)] ==
            IF i = 0 THEN 0 ELSE Term[i - 1] + DigitVal(Ch(s, i)) * Pow10(Len(s) - i)
    IN  Term[Len(s)]

\* <<p, q, r, u>>: "(" at p, "," at q, "): error " at r, ": " at u, with a
\* non-empty file before p, digits between, TS and digits as the code, and a
\* non-empty message after u
ShapeCuts(t) ==
    LET At(lit) == {i \in 1..Len(t) : StartsWithAt(t, i, lit)}
    IN  {d \in At("(") \X At(",") \X At("): error TS") \X At(": ") :
            /\ 1 < d[1] /\ d[1] < d[2] /\ d[2] < d[3] /\ d[3] + 11 <= d[4]
            /\ d[4] + 2 <= Len(t)
            /\ AllDigits(SubSeq(t, d[1] + 1, d[2] - 1))
            /\ AllDigits(SubSeq(t, d[2] + 1, d[3] - 1))
            /\ AllDigits(SubSeq(t, d[3] + 11, d[4] - 1))}

\* the record the parts of t at the cuts d spell
ShapeRecord(t, d) ==
    [file    |-> SubSeq(t, 1, d[1] - 1),
     line    |-> DecimalValue(SubSeq(t, d[1] + 1, d[2] - 1)),
     column  |-> DecimalValue(SubSeq(t, d[2] + 1, d[3] - 1)),
     code    |-> SubSeq(t, d[3] + 9, d[4] - 1),
     message |-> SubSeq(t, d[4] + 2, Len(t))]

Fields(e) == [file |-> e.file, line |-> e.line, column |-> e.column,
              code |-> e.code, message |-> e.message]

TrimRight(s) ==
    LET keep == {i \in 1..Len(s) : Ch(s, i) \notin Whitespace}
    IN  IF keep = {} THEN "" ELSE SubSeq(s, 1, CHOOSE i \in keep : \A j \in keep : i >= j)

TrimBoth(s) ==
    LET keep == {i \in 1..Len(s) : Ch(s, i) \notin Whitespace}
    IN  IF keep = {} THEN ""
        ELSE SubSeq(TrimRight(s), CHOOSE i \in keep : \A j \in keep : i <= j,
                    Len(TrimRight(s)))

\* errs holds, in input order, one record for each of the lines whose trimmed
\* text has the shape, spelling the parts of that text, and nothing else
RecordsOfShapedLines(errs, trimmed) ==
    LET shaped == SelectSeq(trimmed, LAMBDA t : ShapeCuts(t) # {})
    IN  /\ Len(errs) = Len(shaped)
        /\ \A n \in 1..Len(shaped) :
              \E d \in ShapeCuts(shaped[n]) : Fields(errs[n]) = ShapeRecord(shaped[n], d)

InputLines == readlines(fileText)

\* C4 as stated: one diagnostic, in input order, for each line that has the shape
\* after trailing whitespace alone is trimmed, its fields the parts of that text
\* (the file from the first character of the line on); no other line yields one.
C4_ParseTrailingTrimOnly ==
    (fileExists /\ Parsed) =>
        RecordsOfShapedLines(errors, [n \in 1..Len(InputLines) |-> TrimRight(InputLines[n])])

\* C4 as the code has it: the same, the line being trimmed of whitespace at both
\* ends, so that the file starts at the first character that is not whitespace.
C4_ParseBothEndsTrimmed ==
    (fileExists /\ Parsed) =>
        RecordsOfShapedLines(errors, [n \in 1..Len(InputLines) |-> TrimBoth(InputLines[n])])

\* an indented diagnostic line with leading zeros was parsed and another line dropped
C4_Witness ==
    /\ fileExists /\ Parsed
    /\ Len(errors) = 1 /\ Len(InputLines) = 2
    /\ Ch(InputLines[1], 1) = " "
    /\ errors[1].file = "src/screens/Home.tsx" /\ errors[1].line = 7 /\ errors[1].column = 12

\* C5: with the log missing the run fails with FileNotFoundError before anything is
\* parsed, aggregated, rendered or written; and the output file is only ever
\* written once parsing, aggregation and report rendering have completed.
C5_MissingLogWritesNothing ==
    /\ ~fileExists =>
          /\ pc = "parse" /\ exc \in {"none", "FileNotFoundError"}
          /\ errors = <<>> /\ analysis = <<>> /\ report = "" /\ stdout = <<>>
          /\ outFile = <<>>
    /\ outFile # <<>> =>
          /\ fileExists /\ pc \in {"summary", "exit"}
          /\ analysis # <<>> /\ report # "" /\ stdout # <<>>

C5_Witness == ~fileExists /\ exc = "FileNotFoundError" /\ outFile = <<>>

\* C7: whenever the export is written, summary.total_errors is the number of
\* diagnostics, backend_errors and frontend_errors count the diagnostics flagged
\* and not flagged backend-related (so they add up to the total), and the two
\* error_distribution entries carry the same counts.
C7_SummaryCounts ==
    outFile # <<>> =>
        LET s == outFile[1].summary
            nb == Cardinality({i \in 1..Len(errors) : errors[i].is_backend_related})
            nf == Cardinality({i \in 1..Len(errors) : ~errors[i].is_backend_related})
        IN  /\ s.total_errors = Len(errors)
            /\ s.backend_errors = nb
            /\ s.frontend_errors = nf
            /\ s.backend_errors + s.frontend_errors = s.total_errors
            /\ outFile[1].error_distribution =
                   << [type |-> "Backend", count |-> nb], [type |-> "Frontend", count |-> nf] >>

C7_Witness ==
    /\ outFile # <<>>
    /\ outFile[1].summary.backend_errors = 1
    /\ outFile[1].summary.frontend_errors = 1

\* C9: every parsed diagnostic's category is the table's name for its code when
\* the code is one of the 17 table entries and "Other" otherwise, never empty,
\* and the same for two diagnostics with the same code whatever their messages.
C9_CategoryInTable ==
    LET table == Range(categories)
        names == {c[2] : c \in table}
    IN  /\ Cardinality(names) = 17 /\ Cardinality(table) = 17
        /\ "Other" \notin names
        /\ \A i \in 1..Len(errors) :
              LET e == errors[i] IN
              /\ e.category # ""
              /\ e.category \in names \cup {"Other"}
              /\ (\A c \in table : c[1] = e.code => e.category = c[2])
              /\ ((\A c \in table : c[1] # e.code) => e.category = "Other")
              /\ \A j \in 1..Len(errors) :
                    errors[j].code = e.code => errors[j].category = e.category

\* two diagnostics with the same table code and different messages, and one with
\* an unknown code, were parsed
C9_Witness ==
    /\ Len(errors) = 3
    /\ errors[1].code = errors[2].code /\ errors[1].message # errors[2].message
    /\ errors[1].category = "Module not found"
    /\ errors[3].code = "TS9999" /\ errors[3].category = "Other"

(***************************************************************************)
(* Ranking: logs with up to six and more distinct screens and categories.  *)
(***************************************************************************)
MaxRankBody == 3
MaxRankTail == 2

\* five diagnostics with five different screens and five different categories
WideRankLog ==
    ErrLine("src/screens/Home.tsx", "1", "1", "TS2307", "m") \o "\n" \o
    ErrLine("src/components/Button/B.tsx", "2", "1", "TS2339", "m") \o "\n" \o
    ErrLine("src/__tests__/a.test.ts", "3", "1", "TS2345", "m") \o "\n" \o
    ErrLine("src/hooks/useX.ts", "4", "1", "TS2304", "m") \o "\n" \o
    ErrLine("lib/util.ts", "5", "1", "TS2322", "m") \o "\n"

RankLines == {
    ErrLine("app.ts", "1", "1", "TS9999", "m") \o "\n",
    ErrLine("src/screens/Home.tsx", "2", "1", "TS2554", "m") \o "\n",
    ErrLine("src/store/s.ts", "3", "1", "TS2307", "m") \o "\n",
    ErrLine("lib/util.ts", "4", "1", "TS2322", "m") \o "\n" }

InitRank ==
    Start(LogTexts(RankLines, MaxRankBody)
          \cup {WideRankLog \o t : t \in LogTexts(RankLines, MaxRankTail)})

SpecRank == InitRank /\ [][Next]_vars

\* ranked lists the first min(n, number of distinct keys) keys of keys, each with
\* the number of times it occurs, ordered by that number descending and, among
\* equal numbers, by first occurrence
IsTopOf(ranked, keys, n) ==
    LET K == Range(keys)
        Count(k) == Cardinality({i \in 1..Len(keys) : keys[i] = k})
        FirstAt(k) == CHOOSE i \in 1..Len(keys) : keys[i] = k /\ \A j \in 1..(i - 1) : keys[j] # k
        Before(a, b) == Count(a) > Count(b) \/ (Count(a) = Count(b) /\ FirstAt(a) < FirstAt(b))
        listed == {ranked[p][1] : p \in 1..Len(ranked)}
    IN  /\ Len(ranked) = (IF Cardinality(K) < n THEN Cardinality(K) ELSE n)
        /\ \A p \in 1..Len(ranked) : ranked[p][1] \in K /\ ranked[p][2] = Count(ranked[p][1])
        /\ \A p, q \in 1..Len(ranked) : p < q => Before(ranked[p][1], ranked[q][1])
        /\ \A p, q \in 1..Len(ranked) : p < q => ranked[p][2] >= ranked[q][2]
        /\ \A k \in K \ listed : \A p \in 1..Len(ranked) :
              Before(ranked[p][1], k) /\ Count(k) <= ranked[p][2]

ScreenKeys == [i \in 1..Len(errors) |-> get_screen_from_path(errors[i].file).val]
CategoryKeys == [i \in 1..Len(errors) |-> errors[i].category]

\* C6: top_5_screens is the first min(5, distinct screens) entries of by_screen by
\* count descending, ties in first-encountered order, and most_common_patterns the
\* same over by_category: at most 5 entries, counts non-increasing, and no key
\* left out has a higher count than a listed one.
C6_TopFive ==
    analysis # <<>> =>
        LET a == analysis[1] IN
        /\ IsTopOf([p \in 1..Len(a.top_5_screens) |->
                       <<a.top_5_screens[p].screen, a.top_5_screens[p].count>>],
                   ScreenKeys, 5)
        /\ IsTopOf(a.most_common_patterns, CategoryKeys, 5)
        /\ Len(a.top_5_screens) <= 5 /\ Len(a.most_common_patterns) <= 5

\* seven diagnostics, six screens and six categories: one key met last leads with
\* two occurrences, and a key with one occurrence is left out of each list
C6_Witness ==
    /\ analysis # <<>>
    /\ Len(errors) = 7
    /\ Cardinality(Range(ScreenKeys)) = 6 /\ Cardinality(Range(CategoryKeys)) = 6
    /\ Len(analysis[1].top_5_screens) = 5
    /\ analysis[1].top_5_screens[1] = [screen |-> "Root", count |-> 2]
    /\ analysis[1].most_common_patterns[1] = <<"Other", 2>>

(***************************************************************************)
(* Missing properties: logs with up to eleven and more distinct names.     *)
(***************************************************************************)
MaxPropBody == 3
MaxPropTail == 2

NoProp(name) == "Property '" \o name \o "' does not exist on type 'T'."

\* thirteen diagnostics: p01 missing in four files, p02 .. p10 in one file each
WidePropLog ==
    ErrLine("a/f1.ts", "1", "1", "TS2339", NoProp("p01")) \o "\n" \o
    ErrLine("a/f2.ts", "1", "1", "TS2339", NoProp("p01")) \o "\n" \o
    ErrLine("a/f3.ts", "1", "1", "TS2339", NoProp("p01")) \o "\n" \o
    ErrLine("a/f4.ts", "1", "1", "TS2339", NoProp("p01")) \o "\n" \o
    ErrLine("a/f1.ts", "2", "1", "TS2339", NoProp("p02")) \o "\n" \o
    ErrLine("a/f1.ts", "3", "1", "TS2339", NoProp("p03")) \o "\n" \o
    ErrLine("a/f1.ts", "4", "1", "TS2339", NoProp("p04")) \o "\n" \o
    ErrLine("a/f1.ts", "5", "1", "TS2339", NoProp("p05")) \o "\n" \o
    ErrLine("a/f1.ts", "6", "1", "TS2339", NoProp("p06")) \o "\n" \o
    ErrLine("a/f1.ts", "7", "1", "TS2339", NoProp("p07")) \o "\n" \o
    ErrLine("a/f1.ts", "8", "1", "TS2339", NoProp("p08")) \o "\n" \o
    ErrLine("a/f1.ts", "9", "1", "TS2339", NoProp("p09")) \o "\n" \o
    ErrLine("a/f1.ts", "10", "1", "TS2339", NoProp("p10")) \o "\n"

PropTailLines == {
    ErrLine("a/f1.ts", "11", "1", "TS2339", NoProp("q")) \o "\n",
    ErrLine("a/f1.ts", "12", "1", "TS2339", NoProp("p02")) \o "\n",
    ErrLine("a/f1.ts", "13", "1", "TS2741", "Property 'r' is missing in type 'T'.") \o "\n" }

PropLines == {
    ErrLine("a/f1.ts", "1", "1", "TS2339", NoProp("p")) \o "\n",
    ErrLine("a/f2.ts", "1", "1", "TS2339", NoProp("p")) \o "\n",
    ErrLine("a/f1.ts", "2", "1", "TS2339", NoProp("q")) \o "\n",
    ErrLine("a/f3.ts", "1", "1", "TS2551",
            "Property 'q' does not exist on type 'T'. Property 'p' does not exist.") \o "\n",
    ErrLine("a/f3.ts", "2", "1", "TS2741", "Property 'r' is missing in type 'T'.") \o "\n" }

InitProps ==
    Start(LogTexts(PropLines, MaxPropBody)
          \cup {WidePropLog \o t : t \in LogTexts(PropTailLines, MaxPropTail)})

SpecProps == InitProps /\ [][Next]_vars

\* the name between "Property '" and "' does not exist" at the first place where
\* the message reads so ("" when it reads so nowhere)
NamedProperty(message) ==
    LET occ == {d \in (1..Len(message)) \X (1..Len(message)) :
                   /\ StartsWithAt(message, d[1], "Property '")
                   /\ d[2] >= d[1] + 10
                   /\ StartsWithAt(message, d[2] + 1, "' does not exist")}
        first == CHOOSE d \in occ : \A o \in occ : d[1] < o[1] \/ (d[1] = o[1] /\ d[2] <= o[2])
    IN  IF occ = {} THEN "" ELSE SubSeq(message, first[1] + 10, first[2])

\* C10: common_missing_properties has at most 10 entries with distinct names, in
\* non-increasing order of count; a count is the number of diagnostics naming the
\* property (not of distinct files); files holds at most 3 distinct paths, each
\* the file of such a diagnostic; no property left out has a higher count than a
\* listed one.
C10_MissingProperties ==
    analysis # <<>> =>
        LET c == analysis[1].common_missing_properties
            name == [i \in 1..Len(errors) |-> NamedProperty(errors[i].message)]
            Names == Range(name) \ {""}
            Count(n) == Cardinality({i \in 1..Len(errors) : name[i] = n})
            FilesOf(n) == {errors[i].file : i \in {j \in 1..Len(errors) : name[j] = n}}
            listed == {c[p].property : p \in 1..Len(c)}
        IN  /\ Len(c) <= 10
            /\ Len(c) = (IF Cardinality(Names) < 10 THEN Cardinality(Names) ELSE 10)
            /\ \A p \in 1..Len(c) :
                  /\ c[p].property \in Names
                  /\ c[p].count = Count(c[p].property)
                  /\ Len(c[p].files) <= 3
                  /\ Cardinality(Range(c[p].files)) = Len(c[p].files)
                  /\ Range(c[p].files) \subseteq FilesOf(c[p].property)
            /\ \A p, q \in 1..Len(c) :
                  p < q => c[p].property # c[q].property /\ c[p].count >= c[q].count
            /\ \A n \in Names \ listed : \A p \in 1..Len(c) : Count(n) <= c[p].count

\* eleven names of which ten are listed; the first was met in four files and
\* lists three; another has two occurrences in one file
C10_Witness ==
    /\ analysis # <<>>
    /\ Cardinality(Range([i \in 1..Len(errors) |-> NamedProperty(errors[i].message)]) \ {""}) = 11
    /\ LET c == analysis[1].common_missing_properties
       IN  /\ Len(c) = 10
           /\ c[1].property = "p01" /\ c[1].count = 4 /\ Len(c[1].files) = 3
           /\ c[2].property = "p02" /\ c[2].count = 2 /\ Len(c[2].files) = 1

(***************************************************************************)
(* Backend classification: pairs of diagnostics, the second being the      *)
(* first with a table entry inserted into its file or its message.         *)
(***************************************************************************)
InsertAt(s, pos, t) == Slice(s, 1, pos) \o t \o Slice(s, pos + 1, Len(s))

BaseFiles == {"api/x.ts", "src/a.ts"}
BaseMessages == {"no token", "m"}

BackendLogs ==
    UNION {
        {ErrLine(f, "1", "1", "TS2307", m) \o "\n"
            \o ErrLine(InsertAt(f, pos, backend_paths[i]), "2", "1", "TS2307", m) \o "\n" :
                pos \in 0..Len(f), i \in 1..Len(backend_paths)}
        \cup
        {ErrLine(f, "1", "1", "TS2307", m) \o "\n"
            \o ErrLine(f, "2", "1", "TS2307", InsertAt(m, pos, backend_keywords[i])) \o "\n" :
                pos \in 0..Len(m), i \in 1..Len(backend_keywords)}
        : f \in BaseFiles, m \in BaseMessages}

InitBackend == Start(BackendLogs)

SpecBackend == InitBackend /\ [][Next]_vars

PathEntries == Range(backend_paths)
KeywordEntries == Range(backend_keywords)

\* t is s with one of the entries inserted at some position
IsInsertion(s, t, entries) ==
    \E e \in entries : \E pos \in 0..Len(s) : t = InsertAt(s, pos, e)

\* C8: a diagnostic whose file contains a path-table entry, or whose message
\* contains a keyword-table entry, is backend-related whatever its other field;
\* and when a diagnostic is backend-related, so is the one that differs from it by
\* a path-table entry inserted into the file or a keyword-table entry inserted
\* into the message.
C8_BackendMonotonic ==
    /\ \A i \in 1..Len(errors) :
          ((\E e \in PathEntries : Contains(e, errors[i].file))
             \/ (\E e \in KeywordEntries : Contains(e, errors[i].message)))
          => errors[i].is_backend_related
    /\ \A i, j \in 1..Len(errors) :
          (/\ errors[i].is_backend_related
           /\ \/ (/\ errors[j].message = errors[i].message
                  /\ IsInsertion(errors[i].file, errors[j].file, PathEntries))
              \/ (/\ errors[j].file = errors[i].file
                  /\ IsInsertion(errors[i].message, errors[j].message, KeywordEntries)))
          => errors[j].is_backend_related

\* the insertion broke the only table entry the file contained, and the
\* diagnostic is backend-related through the inserted one
C8_Witness ==
    /\ Len(errors) = 2
    /\ errors[1].file = "api/x.ts" /\ errors[1].message = "m"
    /\ errors[1].is_backend_related
    /\ errors[2].message = "m"
    /\ IsInsertion(errors[1].file, errors[2].file, PathEntries)
    /\ ~Contains("api/", errors[2].file)
    /\ errors[2].is_backend_related

====
